---- MODULE Spec2Model ----
(***************************************************************************)
(* State-machine model of the Rotonde client (src/Rotonde-Client-babel.js):*)
(* the definitions stores, the handler manager (newHandlerManager), the    *)
(* connection and the client built on them (connect, handleMessage,        *)
(* onReady, requireDefinitions, bootstrap).                                *)
(*                                                                         *)
(* The program is single threaded: every action below is one run to        *)
(* completion of a public call, of a socket notification (onopen,          *)
(* onmessage), of a timer callback or of a promise continuation.           *)
(***************************************************************************)
EXTENDS Integers, Sequences, FiniteSets, TLC

(***************************************************************************)
(* Bounds of the model.                                                    *)
(***************************************************************************)
\* longest handler list the callers build for one identifier
MaxHandlers == 3
\* promises (makePromise calls) created in one behaviour
MaxPromises == 1
\* connect() calls in one behaviour
MaxConnects == 2
\* subscribers of one identifier besides the waits of bootstrap
MaxSubscribers == 1

(***************************************************************************)
(* Values.                                                                 *)
(***************************************************************************)
Registries == {"event", "action", "definition", "unDefinition"}
Types == {"action", "event"}
Identifiers == {"A", "E1", "D1"}
Payloads == {"x"}

\* A callback is a record [kind, n]:
\*   "cb"    a plain subscriber,
\*   "resub" a subscriber that attaches itself again (attachOnce) whenever it
\*           is called,
\*   "attacher" a subscriber that attaches (attachOnce) the plain subscriber
\*           Cb(n) to its identifier whenever it is called,
\*   "fn"    the function fn of makePromise's n-th promise,
\*   "ready" a callback passed to onReady.
Cb(n) == [kind |-> "cb", n |-> n]
Resub(n) == [kind |-> "resub", n |-> n]
Attacher(n) == [kind |-> "attacher", n |-> n]
Fn(p) == [kind |-> "fn", n |-> p]
ReadyCb(n) == [kind |-> "ready", n |-> n]

VARIABLES
    handlers,          \* per handler manager, the object `handlers`
    hooks,             \* per manager and identifier, the hook calls so far
    promises,          \* the promises made by makePromise, in creation order
    conn,              \* `connection`: "none", "connecting" or "open"
    connects,          \* number of connect() calls so far
    localDefinitions,  \* per type, the array `definitions` of the local store
    remoteDefinitions, \* per type, the array `definitions` of the remote store
    readyCallbacks,    \* the array readyCallbacks
    readyPassed,       \* the callbacks passed to onReady so far
    readyInvoked,      \* the callbacks passed to onReady that have been called
    boot,              \* the bootstrap call in progress
    sent,              \* the socket.send calls of the last step, in order
    calls,             \* the callbacks invoked by the last step, in order
    last               \* the operation the last step ran

vars == <<handlers, hooks, promises, conn, connects, localDefinitions,
          remoteDefinitions, readyCallbacks, readyPassed, readyInvoked,
          boot, sent, calls, last>>

(***************************************************************************)
(* Sequence helpers (lodash and Array.prototype).                          *)
(***************************************************************************)
\* h.splice(index, 1) with a 0-based index
Splice(h, index) ==
    [k \in 1..(Len(h) - 1) |-> IF k <= index THEN h[k] ELSE h[k + 1]]

Range(s) == {s[k] : k \in 1..Len(s)}

RECURSIVE UniqFrom(_, _)
UniqFrom(s, seen) ==
    IF s = <<>> THEN <<>>
    ELSE IF Head(s) \in seen THEN UniqFrom(Tail(s), seen)
         ELSE <<Head(s)>> \o UniqFrom(Tail(s), seen \cup {Head(s)})

\* _.uniq(s) and _.union(a, b, c) of arrays of strings: first occurrences
Uniq(s) == UniqFrom(s, {})

RECURSIVE UniqByNameFrom(_, _)
UniqByNameFrom(s, seen) ==
    IF s = <<>> THEN <<>>
    ELSE IF Head(s).name \in seen THEN UniqByNameFrom(Tail(s), seen)
         ELSE <<Head(s)>> \o UniqByNameFrom(Tail(s), seen \cup {Head(s).name})

\* _.uniq(s, function (field) { return field.name; })
UniqByName(s) == UniqByNameFrom(s, {})

(***************************************************************************)
(* The world a synchronous call acts on: the part of the state that the    *)
(* handler managers, their hooks and the callbacks read and write.  gen    *)
(* counts the arrays created for an identifier during the step, so that a  *)
(* loop holding a reference h to an array can tell it from a newer one.    *)
(***************************************************************************)
World ==
    [handlers |-> handlers, hooks |-> hooks, promises |-> promises,
     conn |-> conn, sent |-> <<>>, calls |-> <<>>,
     gen |-> [r \in Registries |-> [i \in Identifiers |-> 0]]]

\* isConnected(): connection && connection.isConnected()
isConnected(c) == c = "open"

\* socket.send(JSON.stringify({type, payload})): the model records the call
send(w, type, payload) ==
    [w EXCEPT !.sent = Append(@, [type |-> type, payload |-> payload])]

sendSubscribe(w, identifier) == send(w, "sub", [identifier |-> identifier])
sendUnsubscribe(w, identifier) == send(w, "unsub", [identifier |-> identifier])
sendAction(w, identifier, data) ==
    send(w, "action", [identifier |-> identifier, data |-> data])
sendEvent(w, identifier, data) ==
    send(w, "event", [identifier |-> identifier, data |-> data])
sendDefinition(w, definition) == send(w, "def", definition)
sendUnDefinition(w, unDefinition) == send(w, "undef", unDefinition)

(***************************************************************************)
(* newHandlerManager(firstAddedCallback, lastRemovedCallback).             *)
(*                                                                         *)
(* handlers[r][identifier] is [key, list]: key says that the property      *)
(* `identifier` exists on the object handlers (it is what _.keys sees);    *)
(* list is its array, and <<>> stands for the value undefined (an array    *)
(* stored there is never empty when a caller can look at it).              *)
(* An entry [callback, callCount] is [cb, cnt]; n (the callCount it was    *)
(* attached with) and used (the calls it got so far) are bookkeeping of    *)
(* the model.                                                              *)
(***************************************************************************)
NoHandlers == [i \in Identifiers |-> [key |-> FALSE, list |-> <<>>]]
NoHooks ==
    [i \in Identifiers |-> [last |-> "none", alt |-> TRUE, up |-> 0, down |-> 0]]

List(w, r, identifier) == w.handlers[r][identifier].list

\* the array a loop holds as h: the one stored when the loop began, which is
\* empty for good once it was emptied and replaced
Held(w, r, identifier, g) ==
    IF w.gen[r][identifier] = g THEN List(w, r, identifier) ELSE <<>>

\* the hooks given to newHandlerManager: eventHandlers sends sub / unsub when
\* connected, the other three managers get function () {}
firstAddedCallback(w, r, identifier) ==
    LET w1 == [w EXCEPT !.hooks[r][identifier] =
                   [@ EXCEPT !.alt = @ /\ w.hooks[r][identifier].last # "first",
                             !.last = "first",
                             !.up = @ + 1]]
    IN IF r = "event" /\ isConnected(w.conn)
       THEN sendSubscribe(w1, identifier)
       ELSE w1

lastRemovedCallback(w, r, identifier) ==
    LET w1 == [w EXCEPT !.hooks[r][identifier] =
                   [@ EXCEPT !.alt = @ /\ w.hooks[r][identifier].last = "first",
                             !.last = "last",
                             !.down = @ + 1]]
    IN IF r = "event" /\ isConnected(w.conn)
       THEN sendUnsubscribe(w1, identifier)
       ELSE w1

\* detachAtIndex with the hook call moved out of `if (h.length == 0)`
detachAtIndexHookAlways(w, r, identifier, index) ==
    LET h1 == Splice(List(w, r, identifier), index)
        w1 == [w EXCEPT !.handlers[r][identifier].list = h1]
    IN lastRemovedCallback(
           IF Len(h1) = 0
           THEN [w1 EXCEPT !.hooks[r][identifier].down = @ - 1]
           ELSE w1,
           r, identifier)

detachAtIndex(w, r, identifier, index) ==
    LET h1 == Splice(List(w, r, identifier), index)
        \* an emptied list is replaced by undefined: the key stays
        w1 == [w EXCEPT !.handlers[r][identifier].list = h1]
    IN IF Len(h1) = 0
       THEN lastRemovedCallback(
                [w1 EXCEPT !.hooks[r][identifier].down = @ - 1], r, identifier)
       ELSE w1

attach(w, r, identifier, callback, callCount) ==
    LET created == List(w, r, identifier) = <<>>
        w1 == IF created
              THEN firstAddedCallback(
                       [w EXCEPT !.handlers[r][identifier].key = TRUE,
                                 !.gen[r][identifier] = @ + 1,
                                 !.hooks[r][identifier].up = @ - 1],
                       r, identifier)
              ELSE w
    IN [w1 EXCEPT !.handlers[r][identifier].list =
           Append(@, [cb |-> callback, cnt |-> callCount,
                      n |-> callCount, used |-> 0])]

attachOnce(w, r, identifier, callback) == attach(w, r, identifier, callback, 1)

RECURSIVE detachLoop(_, _, _, _, _)
detachLoop(w, r, identifier, callback, i) ==
    LET h == List(w, r, identifier)
    IN IF i >= Len(h) THEN w
       ELSE IF h[i + 1].cb = callback
            THEN detachLoop(detachAtIndex(w, r, identifier, i),
                            r, identifier, callback, i + 1)
            ELSE detachLoop(w, r, identifier, callback, i + 1)

detach(w, r, identifier, callback) ==
    IF List(w, r, identifier) # <<>>
    THEN detachLoop(w, r, identifier, callback, 0)
    ELSE w

\* handlers.keys(): the keys of the entries of the Map handlers.  The
\* manager stores its arrays as properties of the object
\* (handlers[identifier] = []) and never calls handlers.set, so the Map has
\* no entry whatever was attached.
MapKeys(w, r) == <<>>

RECURSIVE detachAllAt(_, _, _, _)
\* for (var i = 0; i < handlers[identifier].length; i++)
\*     detachAtIndex(identifier, i)
\* (once the list is emptied handlers[identifier] is undefined and reading
\* its length throws; MapKeys being empty, no identifier gets here)
detachAllAt(w, r, identifier, i) ==
    IF i >= Len(List(w, r, identifier)) THEN w
    ELSE detachAllAt(detachAtIndex(w, r, identifier, i), r, identifier, i + 1)

RECURSIVE detachAllKeys(_, _, _, _)
\* for (identifier of handlers.keys()) { ... }
detachAllKeys(w, r, ks, k) ==
    IF k > Len(ks) THEN w
    ELSE detachAllKeys(detachAllAt(w, r, ks[k], 0), r, ks, k + 1)

detachAll(w, r) == detachAllKeys(w, r, MapKeys(w, r), 1)

\* _.keys(handlers)
registeredIdentifiers(w, r) ==
    {identifier \in Identifiers : w.handlers[r][identifier].key}

\* resolve(data) of the promise library: only a pending promise settles
resolve(w, p, data) ==
    IF w.promises[p].state = "pending"
    THEN [w EXCEPT !.promises[p].state = "resolved",
                   !.promises[p].value = data]
    ELSE w

\* reject('time out ' + identifier)
reject(w, p, identifier) ==
    IF w.promises[p].state = "pending"
    THEN [w EXCEPT !.promises[p].state = "rejected",
                   !.promises[p].value = [timeout |-> identifier]]
    ELSE w

\* what a callback does when it is called with param
invoke(w, r, identifier, callback, param) ==
    CASE callback.kind = "fn" ->
            \* fn of makePromise: resolve(data); clearTimeout(timer)
            [resolve(w, callback.n, param) EXCEPT
                 !.promises[callback.n].timer = FALSE]
      [] callback.kind = "resub" ->
            attachOnce(w, r, identifier, callback)
      [] callback.kind = "attacher" ->
            attachOnce(w, r, identifier, Cb(callback.n))
      [] OTHER -> w

\* consumedBy with h[i][1]-- == 0 for --h[i][1] == 0
consumedByPostDecrement(callCount) == callCount > 0 /\ callCount = 0

\* callCount > 0 and --h[i][1] == 0: this call consumes a counted entry
consumedBy(callCount) == callCount > 0 /\ callCount - 1 = 0

RECURSIVE callLoop(_, _, _, _, _, _)
callLoop(w, r, identifier, param, i, g) ==
    LET h == Held(w, r, identifier, g)
    IN IF i >= Len(h) THEN w
       ELSE LET callback == h[i + 1].cb
                callCount == h[i + 1].cnt
                consumed == consumedBy(callCount)
                w1 == IF callCount > 0
                      THEN [w EXCEPT !.handlers[r][identifier].list[i + 1].cnt
                                         = @ - 1]
                      ELSE w
                \* used counts the calls of an entry with a finite callCount
                w2 == IF consumed
                      THEN detachAtIndex(w1, r, identifier, i)
                      ELSE IF callCount > 0
                      THEN [w1 EXCEPT !.handlers[r][identifier].list[i + 1].used
                                          = @ + 1]
                      ELSE w1
                w3 == [w2 EXCEPT !.calls = Append(@,
                          [cb |-> callback, identifier |-> identifier,
                           param |-> param, n |-> h[i + 1].n,
                           nth |-> h[i + 1].used + 1,
                           present |-> ~consumed,
                           len |-> Len(List(w2, r, identifier)),
                           hook |-> w2.hooks[r][identifier].last])]
            IN callLoop(invoke(w3, r, identifier, callback, param),
                        r, identifier, param, i + 1, g)

callHandlers(w, r, identifier, param) ==
    IF List(w, r, identifier) # <<>>
    THEN callLoop(w, r, identifier, param, 0, w.gen[r][identifier])
    ELSE w

\* owner tells the promises of bootstrap from those of other callers
makePromise(w, r, identifier, timeout, owner) ==
    LET p == Len(w.promises) + 1
        w1 == [w EXCEPT !.promises = Append(@,
                   [reg |-> r, identifier |-> identifier, state |-> "pending",
                    value |-> [none |-> TRUE], timer |-> timeout,
                    owner |-> owner])]
    IN attachOnce(w1, r, identifier, Fn(p))

\* the function given to setTimeout by makePromise
timerCallback(w, p) ==
    LET r == w.promises[p].reg
        identifier == w.promises[p].identifier
        w1 == detach(w, r, identifier, Fn(p))
    IN [reject(w1, p, identifier) EXCEPT !.promises[p].timer = FALSE]

(***************************************************************************)
(* newDefinitionsStore().  A store is its array `definitions`; the index   *)
(* definitionsByIdentifier is _.indexBy(definitions, 'identifier') after   *)
(* every change of the array, so it is computed from the array.            *)
(* A definition is [identifier, type, fields], a field [name, v].          *)
(***************************************************************************)
\* definitionsByIdentifier[identifier]: <<>> stands for undefined
getDefinition(definitions, identifier) ==
    LET at == {k \in 1..Len(definitions) :
                   definitions[k].identifier = identifier}
    IN IF at = {} THEN <<>>
       ELSE <<definitions[CHOOSE k \in at : \A j \in at : j <= k]>>

\* mergedDefinition with the union taken as _.union(definition.fields, d.fields)
mergedDefinitionNewFirst(definitions, definition) ==
    LET d == getDefinition(definitions, definition.identifier)
    IN IF d # <<>>
       THEN [definition EXCEPT
                 !.fields = UniqByName(definition.fields \o d[1].fields)]
       ELSE definition

\* the definition as addDefinition leaves it (it assigns definition.fields)
mergedDefinition(definitions, definition) ==
    LET d == getDefinition(definitions, definition.identifier)
    IN IF d # <<>>
       THEN [definition EXCEPT
                 !.fields = UniqByName(d[1].fields \o definition.fields)]
       ELSE definition

addDefinition(definitions, definition) ==
    LET d == getDefinition(definitions, definition.identifier)
        index == CHOOSE k \in 1..Len(definitions) : definitions[k] = d[1]
    IN IF d # <<>>
       THEN [definitions EXCEPT
                 ![index] = mergedDefinition(definitions, definition)]
       ELSE Append(definitions, definition)

\* _.indexOf compares with ===: a stored definition is an object and
\* is never === the identifier, a string
StrictEquals(definition, identifier) == FALSE

\* _.indexOf(definitions, identifier), 0-based, -1 when there is none
indexOf(definitions, identifier) ==
    LET at == {k \in 1..Len(definitions) :
                   StrictEquals(definitions[k], identifier)}
    IN IF at = {} THEN -1
       ELSE (CHOOSE k \in at : \A j \in at : k <= j) - 1

removeDefinition(definitions, identifier) ==
    LET index == indexOf(definitions, identifier)
    IN IF index < 0 THEN definitions ELSE Splice(definitions, index)

\* searchDefinitions(definitionsStore, identifier): _.compact of both lookups
searchDefinitions(definitionsStore, identifier) ==
    getDefinition(definitionsStore["action"], identifier)
        \o getDefinition(definitionsStore["event"], identifier)

(***************************************************************************)
(* The client (module.exports).                                            *)
(***************************************************************************)
NoBoot ==
    [phase |-> "idle", actions |-> <<>>, events |-> <<>>, defs |-> <<>>,
     timeout |-> FALSE, missingDefs |-> <<>>, defPromises |-> <<>>,
     eventPromises |-> <<>>, defsReceived |-> {}, eventsReceived |-> {},
     actionsSent |-> <<>>]

Init ==
    /\ handlers = [r \in Registries |-> NoHandlers]
    /\ hooks = [r \in Registries |-> NoHooks]
    /\ promises = <<>>
    /\ conn = "none"
    /\ connects = 0
    /\ localDefinitions = [t \in Types |-> <<>>]
    /\ remoteDefinitions = [t \in Types |-> <<>>]
    /\ readyCallbacks = <<>>
    /\ readyPassed = {}
    /\ readyInvoked = {}
    /\ boot = NoBoot
    /\ sent = <<>>
    /\ calls = <<>>
    /\ last = [op |-> "init", reg |-> "", identifier |-> "", arg |-> <<>>]

Op(op, r, identifier, arg) ==
    [op |-> op, reg |-> r, identifier |-> identifier, arg |-> arg]

\* the state a synchronous call leaves behind
Commit(w) ==
    /\ handlers' = w.handlers
    /\ hooks' = w.hooks
    /\ promises' = w.promises
    /\ sent' = w.sent
    /\ calls' = w.calls

\* the identifiers, in the order in which a loop over them visits them
IdentifierOrder == <<"A", "E1", "D1">>

\* the action packets among the sends s
ActionPackets(s) ==
    [k \in 1..Len(SelectSeq(s, LAMBDA pkt : pkt.type = "action")) |->
        SelectSeq(s, LAMBDA pkt : pkt.type = "action")[k].payload]

RECURSIVE forEachSeq(_, _, _, _)
\* _.forEach(s, ...) sending one packet of a type per element
forEachSeq(w, s, type, k) ==
    IF k > Len(s) THEN w
    ELSE forEachSeq(send(w, type, s[k]), s, type, k + 1)

(***************************************************************************)
(* Calls of the handler managers' public functions by the program that     *)
(* uses the client (client.eventHandlers.attach(...), ...).                *)
(***************************************************************************)
UserAttach(r, identifier, callback, callCount) ==
    /\ Len(handlers[r][identifier].list) < MaxHandlers
    /\ Commit(attach(World, r, identifier, callback, callCount))
    /\ last' = Op("attach", r, identifier, <<callback, callCount>>)
    /\ UNCHANGED <<conn, connects, localDefinitions, remoteDefinitions,
                   readyCallbacks, readyPassed, readyInvoked, boot>>

UserAttachOnce(r, identifier, callback) ==
    /\ Len(handlers[r][identifier].list) < MaxHandlers
    /\ Commit(attachOnce(World, r, identifier, callback))
    /\ last' = Op("attachOnce", r, identifier, <<callback>>)
    /\ UNCHANGED <<conn, connects, localDefinitions, remoteDefinitions,
                   readyCallbacks, readyPassed, readyInvoked, boot>>

UserDetach(r, identifier, callback) ==
    /\ Commit(detach(World, r, identifier, callback))
    /\ last' = Op("detach", r, identifier, <<callback>>)
    /\ UNCHANGED <<conn, connects, localDefinitions, remoteDefinitions,
                   readyCallbacks, readyPassed, readyInvoked, boot>>

UserDetachAll(r) ==
    /\ Commit(detachAll(World, r))
    /\ last' = Op("detachAll", r, "", <<>>)
    /\ UNCHANGED <<conn, connects, localDefinitions, remoteDefinitions,
                   readyCallbacks, readyPassed, readyInvoked, boot>>

UserCallHandlers(r, identifier, param) ==
    /\ Commit(callHandlers(World, r, identifier, param))
    /\ last' = Op("callHandlers", r, identifier, <<param>>)
    /\ UNCHANGED <<conn, connects, localDefinitions, remoteDefinitions,
                   readyCallbacks, readyPassed, readyInvoked, boot>>

UserPromises == {p \in 1..Len(promises) : promises[p].owner = "user"}

UserMakePromise(r, identifier, timeout) ==
    /\ Cardinality(UserPromises) < MaxPromises
    /\ Len(handlers[r][identifier].list) < MaxHandlers
    /\ Commit(makePromise(World, r, identifier, timeout, "user"))
    /\ last' = Op("makePromise", r, identifier, <<timeout>>)
    /\ UNCHANGED <<conn, connects, localDefinitions, remoteDefinitions,
                   readyCallbacks, readyPassed, readyInvoked, boot>>

\* a timer set by makePromise fires
TimerFires(p) ==
    /\ promises[p].timer
    /\ Commit(timerCallback(World, p))
    /\ last' = Op("timer", promises[p].reg, promises[p].identifier, <<p>>)
    /\ UNCHANGED <<conn, connects, localDefinitions, remoteDefinitions,
                   readyCallbacks, readyPassed, readyInvoked, boot>>

(***************************************************************************)
(* connect, the socket's notifications and onReady.                        *)
(***************************************************************************)
\* connect(): connection = newRotondeConnection(...), not yet connected
Connect ==
    /\ connects < MaxConnects
    /\ conn' = "connecting"
    /\ connects' = connects + 1
    /\ sent' = <<>>
    /\ calls' = <<>>
    /\ last' = Op("connect", "", "", <<>>)
    /\ UNCHANGED <<handlers, hooks, promises, localDefinitions,
                   remoteDefinitions, readyCallbacks, readyPassed,
                   readyInvoked, boot>>

RECURSIVE callReady(_, _, _)
\* _.forEach(readyCallbacks, function (readyCallback) { readyCallback(); })
callReady(w, s, k) ==
    IF k > Len(s) THEN w
    ELSE callReady([w EXCEPT !.calls = Append(@,
                        [cb |-> s[k], identifier |-> "", param |-> <<>>,
                         n |-> -1, nth |-> 1, present |-> TRUE, len |-> 0,
                         hook |-> "none"])],
                   s, k + 1)

\* _.keys(handlers) as an array (the model visits the keys in one fixed order)
keys(w, r) ==
    SelectSeq(IdentifierOrder, LAMBDA i : i \in registeredIdentifiers(w, r))

RECURSIVE each(_, _, _)
\* eventHandlers.each(function (identifier) { sendSubscribe(identifier) })
each(w, ks, k) ==
    IF k > Len(ks) THEN w
    ELSE each(sendSubscribe(w, ks[k]), ks, k + 1)

\* ready without the subscriptions of the handlers registered before
readyWithoutSubscribe(w) ==
    LET w1 == callReady(w, readyCallbacks, 1)
        w3 == forEachSeq(w1, localDefinitions["action"], "def", 1)
    IN forEachSeq(w3, localDefinitions["event"], "def", 1)

\* the function ready that connect passes to newRotondeConnection
ready(w) ==
    LET w1 == callReady(w, readyCallbacks, 1)
        w2 == each(w1, keys(w1, "event"), 1)
        w3 == forEachSeq(w2, localDefinitions["action"], "def", 1)
    IN forEachSeq(w3, localDefinitions["event"], "def", 1)

\* socket.onopen: connected = true; ready()
SocketOpen ==
    /\ conn = "connecting"
    /\ conn' = "open"
    /\ Commit(ready([World EXCEPT !.conn = "open"]))
    /\ readyInvoked' = readyInvoked \cup Range(readyCallbacks)
    /\ last' = Op("open", "", "", <<>>)
    /\ UNCHANGED <<connects, localDefinitions, remoteDefinitions,
                   readyCallbacks, readyPassed, boot>>

\* onReady(callback), each callback being passed once
OnReady(callback) ==
    /\ callback \notin readyPassed
    /\ readyPassed' = readyPassed \cup {callback}
    /\ IF isConnected(conn)
       THEN /\ Commit(callReady(World, <<callback>>, 1))
            /\ readyInvoked' = readyInvoked \cup {callback}
            /\ UNCHANGED readyCallbacks
       ELSE /\ Commit(World)
            /\ readyCallbacks' = Append(readyCallbacks, callback)
            /\ UNCHANGED readyInvoked
    /\ last' = Op("onReady", "", "", <<callback>>)
    /\ UNCHANGED <<conn, connects, localDefinitions, remoteDefinitions, boot>>

(***************************************************************************)
(* Local definitions.                                                      *)
(***************************************************************************)
AddLocalDefinition(type, identifier, fields) ==
    LET definition ==
            [identifier |-> identifier, type |-> type, fields |-> fields]
    IN /\ localDefinitions' = [localDefinitions EXCEPT
              ![type] = addDefinition(@, definition)]
       /\ Commit(IF isConnected(conn)
                 THEN sendDefinition(World,
                          mergedDefinition(localDefinitions[type], definition))
                 ELSE World)
       /\ last' = Op("addLocalDefinition", type, identifier, fields)
       /\ UNCHANGED <<conn, connects, remoteDefinitions, readyCallbacks,
                      readyPassed, readyInvoked, boot>>

RemoveLocalDefinition(type, identifier) ==
    LET definition == getDefinition(localDefinitions[type], identifier)
    IN /\ IF definition = <<>>
          THEN /\ UNCHANGED localDefinitions
               /\ Commit(World)
          ELSE /\ localDefinitions' = [localDefinitions EXCEPT
                      ![type] = removeDefinition(@, identifier)]
               /\ Commit(IF isConnected(conn)
                         THEN sendUnDefinition(World, definition[1])
                         ELSE World)
       /\ last' = Op("removeLocalDefinition", type, identifier, <<>>)
       /\ UNCHANGED <<conn, connects, remoteDefinitions, readyCallbacks,
                      readyPassed, readyInvoked, boot>>

(***************************************************************************)
(* handleMessage: socket.onmessage of the open connection.                 *)
(***************************************************************************)
HandleEvent(identifier, data) ==
    /\ isConnected(conn)
    /\ Commit(callHandlers(World, "event", identifier,
                           [identifier |-> identifier, data |-> data]))
    /\ boot' = IF boot.phase = "started"
               THEN [boot EXCEPT !.eventsReceived = @ \cup {identifier}]
               ELSE boot
    /\ last' = Op("event", "event", identifier, <<data>>)
    /\ UNCHANGED <<conn, connects, localDefinitions, remoteDefinitions,
                   readyCallbacks, readyPassed, readyInvoked>>

HandleAction(identifier, data) ==
    /\ isConnected(conn)
    /\ Commit(callHandlers(World, "action", identifier,
                           [identifier |-> identifier, data |-> data]))
    /\ last' = Op("action", "action", identifier, <<data>>)
    /\ UNCHANGED <<conn, connects, localDefinitions, remoteDefinitions,
                   readyCallbacks, readyPassed, readyInvoked, boot>>

HandleDefinition(type, identifier, fields) ==
    LET received ==
            [identifier |-> identifier, type |-> type, fields |-> fields]
        definition == mergedDefinition(remoteDefinitions[type], received)
        w1 == callHandlers(World, "definition", identifier, definition)
    IN /\ isConnected(conn)
       /\ remoteDefinitions' = [remoteDefinitions EXCEPT
              ![type] = addDefinition(@, received)]
       /\ Commit(IF type = "event"
                    /\ identifier \in registeredIdentifiers(w1, "event")
                 THEN sendSubscribe(w1, identifier)
                 ELSE w1)
       /\ boot' = IF boot.phase = "waitDefs"
                  THEN [boot EXCEPT !.defsReceived = @ \cup {identifier}]
                  ELSE boot
       /\ last' = Op("def", type, identifier, fields)
       /\ UNCHANGED <<conn, connects, localDefinitions, readyCallbacks,
                      readyPassed, readyInvoked>>

HandleUnDefinition(type, identifier) ==
    LET unDefinition ==
            [identifier |-> identifier, type |-> type, fields |-> <<>>]
    IN /\ isConnected(conn)
       /\ remoteDefinitions' = [remoteDefinitions EXCEPT
              ![type] = removeDefinition(@, identifier)]
       /\ Commit(callHandlers(World, "unDefinition", identifier, unDefinition))
       /\ last' = Op("undef", type, identifier, <<>>)
       /\ UNCHANGED <<conn, connects, localDefinitions, readyCallbacks,
                      readyPassed, readyInvoked, boot>>

(***************************************************************************)
(* requireDefinitions and bootstrap.                                       *)
(***************************************************************************)
RECURSIVE makePromises(_, _, _, _, _, _)
\* identifiers.map(function (identifier) { return makePromise(...) })
makePromises(w, r, identifiers, timeout, owner, k) ==
    IF k > Len(identifiers) THEN w
    ELSE makePromises(makePromise(w, r, identifiers[k], timeout, owner),
                      r, identifiers, timeout, owner, k + 1)

\* the promises that a map over identifiers creates in world w
Created(w, identifiers) ==
    [k \in 1..Len(identifiers) |-> Len(w.promises) + k]

requireDefinitions(w, identifiers, timeout, owner) ==
    makePromises(w, "definition", identifiers, timeout, owner, 1)

\* the promises made for a caller's own requireDefinitions
Required ==
    SelectSeq([p \in 1..Len(promises) |-> p],
              LAMBDA p : promises[p].owner = "require")

\* requireDefinitions(identifiers, timeout) called by the program that uses
\* the client, once in a behaviour
UserRequireDefinitions(identifiers, timeout) ==
    /\ Required = <<>>
    /\ Commit(requireDefinitions(World, identifiers, timeout, "require"))
    /\ last' = Op("requireDefinitions", "definition", "", identifiers)
    /\ UNCHANGED <<conn, connects, localDefinitions, remoteDefinitions,
                   readyCallbacks, readyPassed, readyInvoked, boot>>

\* the identifiers of _.union(_.keys(actions), events, defs) that neither
\* remote store knows
missingDefs(actions, events, defs) ==
    Uniq(SelectSeq(
        Uniq([k \in 1..Len(actions) |-> actions[k].identifier]
                 \o events \o defs),
        LAMBDA identifier :
            Len(searchDefinitions(remoteDefinitions, identifier)) = 0))

\* the function promises of bootstrap: the event waits, then the actions
bootPromises(w, actions, events, timeout) ==
    forEachSeq(makePromises(w, "event", events, timeout, "boot", 1),
               actions, "action", 1)

\* Promise.all(ps): "resolved", "rejected" or "pending"
PromiseAll(ps) ==
    IF \E k \in 1..Len(ps) : promises[ps[k]].state = "rejected"
    THEN "rejected"
    ELSE IF \A k \in 1..Len(ps) : promises[ps[k]].state = "resolved"
    THEN "resolved"
    ELSE "pending"

\* bootstrap(actions, events, defs, timeout), called once the client is
\* connected
Bootstrap(actions, events, defs, timeout) ==
    LET missing == missingDefs(actions, events, defs)
    IN /\ boot.phase = "idle"
       /\ isConnected(conn)
       /\ IF Len(missing) > 0
          THEN /\ Commit(requireDefinitions(World, missing, timeout, "boot"))
               /\ boot' = [NoBoot EXCEPT
                      !.phase = "waitDefs", !.actions = actions,
                      !.events = events, !.defs = defs, !.timeout = timeout,
                      !.missingDefs = missing,
                      !.defPromises = Created(World, missing)]
          ELSE /\ Commit(bootPromises(World, actions, events, timeout))
               /\ boot' = [NoBoot EXCEPT
                      !.phase = "started", !.actions = actions,
                      !.events = events, !.defs = defs, !.timeout = timeout,
                      !.eventPromises = Created(World, events),
                      !.actionsSent = ActionPackets(sent')]
       /\ last' = Op("bootstrap", "", "", <<>>)
       /\ UNCHANGED <<conn, connects, localDefinitions, remoteDefinitions,
                      readyCallbacks, readyPassed, readyInvoked>>

\* thenReady for a continuation that also runs after a rejection
thenReadyOnceSettled(ps) == PromiseAll(ps) # "pending"

\* whether the continuation given to then() may run
thenReady(ps) == PromiseAll(ps) = "resolved"

\* the continuation of requireDefinitions(missingDefs, timeout).then(...)
BootstrapThen ==
    /\ boot.phase = "waitDefs"
    /\ thenReady(boot.defPromises)
    /\ Commit(bootPromises(World, boot.actions, boot.events, boot.timeout))
    /\ boot' = [boot EXCEPT
           !.phase = "started",
           !.eventPromises = Created(World, boot.events),
           !.actionsSent = ActionPackets(sent')]
    /\ last' = Op("then", "", "", <<>>)
    /\ UNCHANGED <<conn, connects, localDefinitions, remoteDefinitions,
                   readyCallbacks, readyPassed, readyInvoked>>

\* the promise that bootstrap returned: "none" before the call
BootPromise ==
    CASE boot.phase = "idle" -> "none"
      [] boot.phase = "waitDefs" ->
            IF PromiseAll(boot.defPromises) = "rejected"
            THEN "rejected" ELSE "pending"
      [] OTHER -> PromiseAll(boot.eventPromises)

(***************************************************************************)
(* One handler manager on its own: every public function of                *)
(* newHandlerManager called in any order, with timers firing in between.   *)
(***************************************************************************)
PlainCallbacks == {Cb(1), Cb(2)}
\* callCount arguments: -1 is what attach makes of an omitted callCount
CallCounts == {-1, 1, 2}
RegistryIdentifiers == {"E1"}

NextRegistry ==
    \E identifier \in RegistryIdentifiers :
        \/ \E callback \in PlainCallbacks, callCount \in CallCounts :
               UserAttach("event", identifier, callback, callCount)
        \/ \E callback \in PlainCallbacks \cup {Resub(1)} :
               UserAttachOnce("event", identifier, callback)
        \/ UserAttach("event", identifier, Attacher(2), -1)
        \/ \E callback \in PlainCallbacks \cup {Resub(1), Attacher(2)} :
               UserDetach("event", identifier, callback)
        \/ UserDetachAll("event")
        \/ \E data \in Payloads :
               UserCallHandlers("event", identifier,
                                [identifier |-> identifier, data |-> data])
        \/ \E timeout \in BOOLEAN :
               UserMakePromise("event", identifier, timeout)
        \/ \E p \in 1..Len(promises) : TimerFires(p)

SpecRegistry == Init /\ [][NextRegistry]_vars

(***************************************************************************)
(* The handshake: a client that connects once, a caller that runs          *)
(* bootstrap({A: x}, [E1], [D1], timeout) once and also waits on its own,  *)
(* and a remote side that announces definitions and sends events.          *)
(***************************************************************************)
BootActions == {<<[identifier |-> "A", data |-> "x"]>>}
BootEvents == {<<"E1">>}
BootDefs == {<<"D1">>}
\* the definitions the remote side announces, as <<type, identifier>>
RemoteAnnounces == {<<"action", "A">>, <<"event", "E1">>, <<"action", "D1">>}
Field(name, v) == [name |-> name, v |-> v]
\* the handlers other than bootstrap's own on one identifier
Others(r, identifier) ==
    Len(SelectSeq(handlers[r][identifier].list, LAMBDA e : e.cb.kind # "fn"))

NextBootstrap ==
    \/ conn = "none" /\ Connect
    \/ SocketOpen
    \/ \E actions \in BootActions, events \in BootEvents, defs \in BootDefs,
          timeout \in BOOLEAN :
           Bootstrap(actions, events, defs, timeout)
    \/ BootstrapThen
    \/ \E d \in RemoteAnnounces : HandleDefinition(d[1], d[2], <<Field("a", 1)>>)
    \/ HandleEvent("E1", "x")
    \/ \E p \in 1..Len(promises) : TimerFires(p)
    \/ Others("definition", "D1") < MaxSubscribers
           /\ UserAttachOnce("definition", "D1", Cb(1))
    \/ Others("event", "E1") < MaxSubscribers
           /\ UserAttachOnce("event", "E1", Cb(1))

SpecBootstrap == Init /\ [][NextBootstrap]_vars

(***************************************************************************)
(* The client as a whole, without the handshake: connecting and            *)
(* connecting again, ready callbacks, local definitions, subscribers and   *)
(* the packets of the remote side.                                         *)
(***************************************************************************)
ReadyCallbacks == {ReadyCb(1), ReadyCb(2)}
FieldLists == {<<Field("a", 1)>>, <<Field("a", 2), Field("b", 1)>>}
\* the definitions the client announces, as <<type, identifier>>
LocalAnnounces == {<<"action", "A">>, <<"event", "E1">>}

Next ==
    \/ Connect
    \/ SocketOpen
    \/ \E callback \in ReadyCallbacks : OnReady(callback)
    \/ \E d \in LocalAnnounces, fields \in FieldLists :
           AddLocalDefinition(d[1], d[2], fields)
    \/ \E d \in LocalAnnounces : RemoveLocalDefinition(d[1], d[2])
    \/ \E callCount \in {-1, 1} :
           /\ Others("event", "E1") < MaxSubscribers
           /\ UserAttach("event", "E1", Cb(1), callCount)
    \/ UserDetach("event", "E1", Cb(1))
    \/ HandleEvent("E1", "x")
    \/ HandleAction("A", "x")
    \/ HandleDefinition("event", "E1", <<Field("a", 1)>>)
    \/ HandleUnDefinition("event", "E1")

Spec == Init /\ [][Next]_vars

(***************************************************************************)
(* The definitions stores: a producer that announces and withdraws local   *)
(* definitions, before and after the connection opens, and a remote side   *)
(* that announces and withdraws its own.                                   *)
(***************************************************************************)
\* the definitions of the two sides, as <<type, identifier>>
StoreLocal == {<<"action", "A">>, <<"action", "D1">>}
StoreRemote == {<<"event", "E1">>, <<"event", "D1">>}

NextStore ==
    \/ conn = "none" /\ Connect
    \/ SocketOpen
    \/ \E d \in StoreLocal, fields \in FieldLists :
           AddLocalDefinition(d[1], d[2], fields)
    \/ \E d \in StoreLocal : RemoveLocalDefinition(d[1], d[2])
    \/ \E d \in StoreRemote, fields \in FieldLists :
           HandleDefinition(d[1], d[2], fields)
    \/ \E d \in StoreRemote : HandleUnDefinition(d[1], d[2])

SpecStore == Init /\ [][NextStore]_vars

(***************************************************************************)
(* Subscriptions: subscribers of the event E1 that come and go (attach,    *)
(* detach, one-shot handlers, waits that time out), listeners for the      *)
(* arrival of its definition, and a remote side that announces E1 and      *)
(* sends it, around connect() and the opening of the connection.           *)
(***************************************************************************)
NextSubscription ==
    \/ Connect
    \/ SocketOpen
    \/ \E callCount \in {-1, 1} :
           /\ Others("event", "E1") < MaxSubscribers
           /\ UserAttach("event", "E1", Cb(1), callCount)
    \/ UserDetach("event", "E1", Cb(1))
    \/ \E timeout \in BOOLEAN : UserMakePromise("event", "E1", timeout)
    \/ \E p \in 1..Len(promises) : TimerFires(p)
    \/ \E callCount \in {-1, 1} :
           /\ Others("definition", "E1") <= MaxSubscribers
           /\ UserAttach("definition", "E1", Cb(2), callCount)
    \/ HandleEvent("E1", "x")
    \/ \E fields \in FieldLists : HandleDefinition("event", "E1", fields)

SpecSubscription == Init /\ [][NextSubscription]_vars

(***************************************************************************)
(* requireDefinitions on its own: a caller that asks for definitions, some *)
(* of which the remote side has announced already, and timers.             *)
(***************************************************************************)
RequireIdentifiers == {<<"D1">>, <<"A", "D1">>}

NextRequire ==
    \/ conn = "none" /\ Connect
    \/ SocketOpen
    \/ \E d \in RemoteAnnounces : HandleDefinition(d[1], d[2], <<Field("a", 1)>>)
    \/ \E identifiers \in RequireIdentifiers, timeout \in BOOLEAN :
           UserRequireDefinitions(identifiers, timeout)
    \/ \E p \in 1..Len(promises) : TimerFires(p)

SpecRequire == Init /\ [][NextRequire]_vars

(***************************************************************************)
(* Properties of the handler manager (SpecRegistry).                       *)
(***************************************************************************)
CallbacksOf(s) == [k \in 1..Len(s) |-> s[k].cb]

Entries(r, identifier) == handlers[r][identifier].list

\* C5: for every identifier the first-added hook is called once when its
\* list goes from no entry to one and the last-removed hook once when it
\* goes from one entry to none, even for changes made by callbacks during a
\* dispatch: the hooks alternate beginning with first-added (alt), every
\* such change of a list has its hook call (up and down are the calls
\* minus the changes), and the hook called last tells whether the
\* identifier has entries.
C5_HooksOncePerTransition ==
    \A r \in Registries, identifier \in Identifiers :
        /\ hooks[r][identifier].alt
        /\ hooks[r][identifier].up = 0
        /\ hooks[r][identifier].down = 0
        /\ (hooks[r][identifier].last = "first")
               <=> (Entries(r, identifier) # <<>>)

\* a dispatch emptied the list, called last-removed, and the callback it
\* then called attached itself again, which called first-added
C5_Witness ==
    /\ last.op = "callHandlers"
    /\ \E k \in 1..Len(calls) :
           /\ calls[k].cb.kind = "resub"
           /\ calls[k].len = 0
           /\ calls[k].hook = "last"
    /\ hooks[last.reg][last.identifier].last = "first"
    /\ Entries(last.reg, last.identifier) # <<>>

\* C6: a dispatch calls every callback attached to the identifier when it
\* starts, in attachment order, each exactly once.
C6_DispatchCallsEveryHandlerOnce ==
    [][last'.op = "callHandlers"
          => CallbacksOf(calls')
                 = CallbacksOf(Entries(last'.reg, last'.identifier))]_vars

C8_PromiseSettlesOneWay ==
    [][\A p \in 1..Len(promises) :
           LET before == promises[p]
               after == promises'[p]
               dispatched ==
                   /\ last'.op = "callHandlers"
                   /\ last'.reg = before.reg
                   /\ last'.identifier = before.identifier
               fired == last'.op = "timer" /\ last'.arg = <<p>>
               registered ==
                   \E k \in 1..Len(handlers'[before.reg][before.identifier].list) :
                       handlers'[before.reg][before.identifier].list[k].cb = Fn(p)
           IN /\ (before.state = "pending" /\ dispatched)
                    => /\ after.state = "resolved"
                       /\ after.value = last'.arg[1]
                       /\ ~after.timer
              /\ (before.state = "pending" /\ fired)
                    => /\ after.state = "rejected"
                       /\ after.value = [timeout |-> before.identifier]
                       /\ ~registered
              /\ before.state # "pending"
                    => /\ after = before
                       /\ ~after.timer
                       /\ ~registered
                       /\ \A k \in 1..Len(calls') : calls'[k].cb # Fn(p)
      ]_vars

\* C10: an identifier is a key of handlers, and is returned by
\* registeredIdentifiers(), exactly when it has at least one entry.
C10_KeyIffHasEntry ==
    \A r \in Registries, identifier \in Identifiers :
        (identifier \in registeredIdentifiers(World, r))
            <=> (Entries(r, identifier) # <<>>)

\* C14: detachAll() leaves no entry under any identifier of the manager
\* and no registered identifier, so that a later dispatch calls nothing,
\* and it calls the last-removed hook once for each identifier that had an
\* entry and for no other (which, for the event handlers of a connected
\* client, sends one unsub packet per such identifier).
C14_DetachAllEmpties ==
    [][last'.op = "detachAll" =>
          /\ registeredIdentifiers([handlers |-> handlers'], last'.reg) = {}
          /\ \A identifier \in Identifiers :
                 LET had == Entries(last'.reg, identifier) # <<>>
                     before == hooks[last'.reg][identifier]
                     after == hooks'[last'.reg][identifier]
                     unsub == [type |-> "unsub",
                               payload |-> [identifier |-> identifier]]
                 IN /\ handlers'[last'.reg][identifier].list = <<>>
                    /\ after.alt /\ after.down = 0
                    /\ had => after.last = "last"
                    /\ ~had => after = before
                    /\ Len(SelectSeq(sent', LAMBDA pkt : pkt = unsub))
                           = IF had /\ last'.reg = "event" /\ isConnected(conn)
                             THEN 1 ELSE 0
      ]_vars

\* C15: detach(identifier, callback) leaves the entries of the identifier
\* whose callback is another one, in their order, and none whose callback
\* is the argument, however many there were and wherever they stood; it
\* calls the last-removed hook exactly when that empties a list that had
\* entries.
C15_DetachRemovesEveryMatch ==
    [][last'.op = "detach" =>
          LET before == Entries(last'.reg, last'.identifier)
              after == handlers'[last'.reg][last'.identifier].list
              hookBefore == hooks[last'.reg][last'.identifier]
              hookAfter == hooks'[last'.reg][last'.identifier]
          IN /\ after = SelectSeq(before, LAMBDA e : e.cb # last'.arg[1])
             /\ IF before # <<>> /\ after = <<>>
                THEN hookAfter.last = "last" /\ hookAfter.alt
                         /\ hookAfter.down = 0
                ELSE hookAfter = hookBefore
      ]_vars

RECURSIVE IsSubSeq(_, _)
\* s is t with some elements left out
IsSubSeq(s, t) ==
    IF s = <<>> THEN TRUE
    ELSE IF t = <<>> THEN FALSE
    ELSE IF Head(s) = Head(t) THEN IsSubSeq(Tail(s), Tail(t))
    ELSE IsSubSeq(s, Tail(t))

\* C18: a dispatch calls only entries that were attached to the identifier
\* when it started, each at most once: the callbacks it calls are, in
\* order, among those of the list it started with, so it makes no more
\* calls than that list had entries, whatever the callbacks attach while
\* it runs.
C18_DispatchOverSnapshot ==
    [][last'.op = "callHandlers" =>
          /\ Len(calls') <= Len(Entries(last'.reg, last'.identifier))
          /\ IsSubSeq(CallbacksOf(calls'),
                      CallbacksOf(Entries(last'.reg, last'.identifier)))
      ]_vars

(***************************************************************************)
(* Properties of bootstrap (SpecBootstrap).                                *)
(***************************************************************************)
Rejected(ps) == \E k \in 1..Len(ps) : promises[ps[k]].state = "rejected"

\* C1: no action packet of the bootstrap is sent before a def packet was
\* received for every identifier that was missing when bootstrap was called;
\* once they have all been received (no wait having timed out) the
\* continuation that sends the actions runs, and it sends exactly one action
\* packet for each entry of actionsToSend.
C1_DefinitionsBeforeActions ==
    /\ boot.actionsSent # <<>>
           => Range(boot.missingDefs) \subseteq boot.defsReceived
    /\ boot.phase = "started" => boot.actionsSent = boot.actions
    /\ (/\ boot.phase = "waitDefs"
        /\ Range(boot.missingDefs) \subseteq boot.defsReceived
        /\ ~Rejected(boot.defPromises))
           => thenReady(boot.defPromises)

\* C2: the promise of bootstrap resolves once an event packet was
\* dispatched, after step 3 started the waits, for every identifier of
\* eventsToAwait (no wait having timed out), never before, and it rejects
\* if one of the event waits times out.
C2_ResolvesOnceEventsDispatched ==
    /\ BootPromise = "resolved"
           => /\ boot.phase = "started"
              /\ Range(boot.events) \subseteq boot.eventsReceived
    /\ (/\ boot.phase = "started"
        /\ Range(boot.events) \subseteq boot.eventsReceived
        /\ ~Rejected(boot.eventPromises))
           => BootPromise = "resolved"
    /\ Rejected(boot.eventPromises) => BootPromise = "rejected"

\* C3: once the wait for a missing definition has timed out, the promise of
\* bootstrap is rejected, step 3 has not run and cannot run: no action
\* packet was sent and bootstrap has registered no wait for an event (every
\* promise it made waits for a definition).
C3_DefinitionTimeoutAborts ==
    Rejected(boot.defPromises) =>
        /\ BootPromise = "rejected"
        /\ boot.phase = "waitDefs"
        /\ ~ENABLED BootstrapThen
        /\ boot.actionsSent = <<>>
        /\ \A k \in 1..Len(sent) : sent[k].type # "action"
        /\ boot.eventPromises = <<>>
        /\ \A p \in 1..Len(promises) :
               promises[p].owner = "boot" => promises[p].reg = "definition"
        /\ \A identifier \in Identifiers :
               \A k \in 1..Len(Entries("event", identifier)) :
                   LET cb == Entries("event", identifier)[k].cb
                   IN cb.kind = "fn" => promises[cb.n].owner # "boot"

\* a wait of bootstrap timed out, and afterwards the def packets of all the
\* missing identifiers arrived and every other wait resolved
C3_Witness ==
    /\ boot.phase = "waitDefs"
    /\ Len(boot.missingDefs) >= 2
    /\ Rejected(boot.defPromises)
    /\ Range(boot.missingDefs) \subseteq boot.defsReceived
    /\ \E k \in 1..Len(boot.defPromises) :
           promises[boot.defPromises[k]].state = "resolved"
    /\ last.op = "def"

\* the position of the first packet of a type among the sends s, and
\* Len(s) + 1 when there is none
FirstOf(s, type) ==
    IF \E k \in 1..Len(s) : s[k].type = type
    THEN CHOOSE k \in 1..Len(s) :
             /\ s[k].type = type
             /\ \A j \in 1..(k - 1) : s[j].type # type
    ELSE Len(s) + 1

\* C20: the step of bootstrap that sends the actions (step 3) has, by the
\* time it sends the first one, registered a wait of bootstrap in the event
\* handlers for every identifier of eventsToAwait and, the client being
\* connected, sent the sub packet of each such identifier that had no
\* handler before; hence an event packet that arrives afterwards, while
\* the wait for its identifier is pending, resolves that wait.
C20_EventWaitsBeforeActions ==
    [][/\ (last'.op \in {"bootstrap", "then"} /\ boot'.phase = "started") =>
              /\ \A k \in 1..Len(boot'.events) :
                     LET identifier == boot'.events[k]
                         p == boot'.eventPromises[k]
                         sub == [type |-> "sub",
                                 payload |-> [identifier |-> identifier]]
                     IN /\ promises'[p].reg = "event"
                        /\ promises'[p].identifier = identifier
                        /\ \E j \in 1..Len(handlers'["event"][identifier].list) :
                               handlers'["event"][identifier].list[j].cb = Fn(p)
                        /\ (isConnected(conn) /\ Entries("event", identifier) = <<>>)
                               => \E j \in 1..(FirstOf(sent', "action") - 1) :
                                      sent'[j] = sub
              /\ \A j \in 1..Len(sent') :
                     sent'[j].type = "sub" => j < FirstOf(sent', "action")
       /\ (last'.op = "event" /\ boot.phase = "started") =>
              \A k \in 1..Len(boot.eventPromises) :
                  LET p == boot.eventPromises[k]
                  IN (/\ promises[p].identifier = last'.identifier
                      /\ promises[p].state = "pending")
                         => promises'[p].state = "resolved"
      ]_vars

(***************************************************************************)
(* Properties of connect and onReady (Spec).                               *)
(***************************************************************************)
Sent(type, payload) ==
    \E k \in 1..Len(sent) : sent[k] = [type |-> type, payload |-> payload]

\* C4: whenever the connection opens, first or again, the client sends a
\* def packet for every definition held in the two local stores and a sub
\* packet for every identifier with at least one event handler.
C4_OpenReplaysDefinitionsAndSubscriptions ==
    last.op = "open" =>
        /\ \A type \in Types :
               \A k \in 1..Len(localDefinitions[type]) :
                   Sent("def", localDefinitions[type][k])
        /\ \A identifier \in Identifiers :
               Entries("event", identifier) # <<>>
                   => Sent("sub", [identifier |-> identifier])

\* the connection opened a second time, the handler having been attached
\* while the client was not connected (no sub was sent for it before: its
\* first-added hook ran unconnected), and both stores holding a definition
C4_Witness ==
    /\ last.op = "open"
    /\ connects = 2
    /\ localDefinitions["action"] # <<>>
    /\ localDefinitions["event"] # <<>>
    /\ Entries("event", "E1") # <<>>
    /\ Len(sent) = 3

\* C9: a callback passed to onReady is called exactly once: at once when
\* the client is connected, otherwise when the connection opens next, after
\* which the queue is empty; a callback that was called is not called again.
C9_ReadyCallbackOnce ==
    [][/\ \A k \in 1..Len(calls') : calls'[k].cb \notin readyInvoked
       /\ (last'.op = "onReady" /\ isConnected(conn))
              => CallbacksOf(calls') = last'.arg
       /\ last'.op = "open"
              => /\ CallbacksOf(calls') = readyCallbacks
                 /\ readyCallbacks' = <<>>
      ]_vars

(***************************************************************************)
(* Properties of the definitions stores (SpecStore).                       *)
(***************************************************************************)
Names(fields) == {fields[k].name : k \in 1..Len(fields)}

\* the first field of that name
FieldNamed(fields, name) ==
    fields[CHOOSE k \in 1..Len(fields) :
               /\ fields[k].name = name
               /\ \A j \in 1..(k - 1) : fields[j].name # name]

Positions(definitions, identifier) ==
    {k \in 1..Len(definitions) : definitions[k].identifier = identifier}

\* C11: adding a definition whose identifier the store already holds leaves
\* the store with exactly one definition of that identifier, at the position
\* of the old one, every other definition being untouched; its fields have
\* the names of the old and of the new fields, each name once, the field of
\* a name being the old definition's when it had one and the new one's
\* otherwise; its other attributes are the new definition's.
C11_AddDefinitionMerges ==
    [][last'.op = "addLocalDefinition" =>
          LET type == last'.reg
              identifier == last'.identifier
              D2 == last'.arg
              before == localDefinitions[type]
              after == localDefinitions'[type]
              at == Positions(before, identifier)
          IN at # {} =>
                /\ Len(after) = Len(before)
                /\ Positions(after, identifier) = at
                /\ Cardinality(at) = 1
                /\ \A k \in 1..Len(before) : k \notin at => after[k] = before[k]
                /\ \A k \in at :
                       LET D1 == before[k].fields
                           merged == after[k].fields
                       IN /\ after[k].type = type
                          /\ Names(merged) = Names(D1) \cup Names(D2)
                          /\ Cardinality(Names(merged)) = Len(merged)
                          /\ \A name \in Names(merged) :
                                 FieldNamed(merged, name) =
                                     IF name \in Names(D1)
                                     THEN FieldNamed(D1, name)
                                     ELSE FieldNamed(D2, name)
      ]_vars

\* the first of two stored definitions was added again with a field whose
\* name it had (a, kept with its old value) and one it had not (b)
C11_Witness ==
    /\ last.op = "addLocalDefinition"
    /\ last.arg = <<Field("a", 2), Field("b", 1)>>
    /\ Len(localDefinitions[last.reg]) = 2
    /\ localDefinitions[last.reg][1].identifier = last.identifier
    /\ localDefinitions[last.reg][1].fields = <<Field("a", 1), Field("b", 1)>>

\* C12: removeDefinition(identifier) leaves a store without a definition of
\* that identifier (getDefinition reports none, the array holds none) and
\* with every other definition in place; with no such definition the store
\* is unchanged.
C12_RemoveDefinitionRemoves ==
    [][last'.op = "undef" =>
          LET before == remoteDefinitions[last'.reg]
              after == remoteDefinitions'[last'.reg]
          IN /\ getDefinition(after, last'.identifier) = <<>>
             /\ after = SelectSeq(before,
                            LAMBDA d : d.identifier # last'.identifier)
      ]_vars

\* C16: removeLocalDefinition of an identifier the local store does not
\* hold sends nothing and changes nothing; of one it holds, it removes the
\* definition from the local store, so that getLocalDefinition reports none
\* and the next open sends no def packet for it, and it sends one undef
\* packet with the definition exactly when the client is connected.
C16_RemoveLocalDefinition ==
    [][/\ last'.op = "removeLocalDefinition" =>
              LET before == localDefinitions[last'.reg]
                  after == localDefinitions'[last'.reg]
                  definition == getDefinition(before, last'.identifier)
              IN IF definition = <<>>
                 THEN sent' = <<>> /\ after = before
                 ELSE /\ getDefinition(after, last'.identifier) = <<>>
                      /\ after = SelectSeq(before,
                             LAMBDA d : d.identifier # last'.identifier)
                      /\ sent' = IF isConnected(conn)
                                 THEN <<[type |-> "undef",
                                         payload |-> definition[1]]>>
                                 ELSE <<>>
       /\ last'.op = "open" =>
              \A k \in 1..Len(sent') :
                  sent'[k].type = "def" =>
                      \E t \in Types :
                          <<sent'[k].payload>>
                              = getDefinition(localDefinitions[t],
                                              sent'[k].payload.identifier)
      ]_vars

(***************************************************************************)
(* Properties of the subscriptions (SpecSubscription).                     *)
(***************************************************************************)
\* C13: when a def packet of type event arrives for an identifier that has
\* an event handler, the remote store of events holds one definition of the
\* identifier with the received fields merged in, every handler attached
\* for the arrival of that definition is called, in order, with the
\* definition that the store then holds (the store was updated before they
\* ran), and one sub packet for the identifier is sent in the same step.
C13_EventDefinitionSubscribes ==
    [][(/\ last'.op = "def"
        /\ last'.reg = "event"
        /\ Entries("event", last'.identifier) # <<>>) =>
          LET identifier == last'.identifier
              stored == getDefinition(remoteDefinitions'["event"], identifier)
          IN /\ stored # <<>>
             /\ Cardinality(Positions(remoteDefinitions'["event"], identifier))
                    = 1
             /\ Names(last'.arg) \subseteq Names(stored[1].fields)
             /\ CallbacksOf(calls')
                    = CallbacksOf(Entries("definition", identifier))
             /\ \A k \in 1..Len(calls') : <<calls'[k].param>> = stored
             /\ sent' = <<[type |-> "sub",
                           payload |-> [identifier |-> identifier]]>>
      ]_vars

\* C19: a sub packet is sent for an identifier only when the identifier
\* has an event handler: after every step, each sub packet the step sent
\* names an identifier with at least one entry in the event handlers.
C19_SubOnlyWithHandler ==
    \A k \in 1..Len(sent) :
        sent[k].type = "sub"
            => Entries("event", sent[k].payload.identifier) # <<>>

(***************************************************************************)
(* Properties of requireDefinitions (SpecRequire).                         *)
(***************************************************************************)
Known(identifier) == searchDefinitions(remoteDefinitions, identifier) # <<>>

\* C17: requireDefinitions waits only for the identifiers that no remote
\* store knows: right after a call all of whose identifiers are known the
\* combined promise is resolved, no def packet being needed, and no wait
\* is pending for a known identifier; the combined promise is resolved
\* only when every wait has resolved and is rejected when a wait has timed
\* out.
C17_KnownDefinitionsNotAwaited ==
    /\ last.op = "requireDefinitions" =>
           /\ (\A k \in 1..Len(last.arg) : Known(last.arg[k]))
                  => PromiseAll(Required) = "resolved"
           /\ \A k \in 1..Len(Required) :
                  Known(promises[Required[k]].identifier)
                      => promises[Required[k]].state # "pending"
    /\ PromiseAll(Required) = "resolved"
           => \A k \in 1..Len(Required) :
                  promises[Required[k]].state = "resolved"
    /\ Rejected(Required) => PromiseAll(Required) = "rejected"

====
